---- MODULE Spec2Model ----
(***************************************************************************)
(* Model of src/expense_tracker.py: the in-memory ledger (self.entries),   *)
(* the backing CSV file, the session budget, the Treeview, the open edit   *)
(* dialogs and the message box each handler shows.                         *)
(*                                                                         *)
(* Representation                                                          *)
(*  - A piece of text typed into an amount/budget field, or stored in the  *)
(*    Amount column, is a record [num, neg, int, frac, raw]: for decimal   *)
(*    text, num = TRUE and the text is  [-]int.frac  (frac a sequence of   *)
(*    digits, possibly empty); otherwise raw is the text itself.           *)
(*  - A Python float is an integer number of thousandths.                  *)
(*  - A Python value stored under 'Amount' is either a str or a float      *)
(*    (add_entry/save_changes store str, read_entries stores float).       *)
(*  - Category and Note are sequences of one-character strings.            *)
(*  - An edit dialog captures a dict object, not an id.  The dicts of    *)
(*    self.entries are all created after the latest read_entries (which   *)
(*    builds a new dict for every row), so a captured dict is an element  *)
(*    of self.entries iff it was captured after the latest load and an    *)
(*    entry with its ID (uuid4, unique) is still in the list.  A dialog   *)
(*    is [ID, old]: old = captured before the latest read_entries.        *)
(*  - Date keeps the month of the timestamp.  The clock is read only by    *)
(*    add_entry; in the runs explored the first entry is created in month  *)
(*    0 and the later ones in month 1.                                     *)
(*  - The Treeview keeps the ID column of the rows it shows (the only      *)
(*    column the handlers read back).                                      *)
(*  - uuid4 is a supply of ids that never repeats.                         *)
(*  - The file chosen as the destination of an export is outside the       *)
(*    state; show_summary and show_chart only read the ledger.             *)
(***************************************************************************)
EXTENDS Integers, Sequences, FiniteSets, TLC

\* ---------------------------------------------------------------- bounds
MaxAdds == 2
MaxDialogs == 1

VARIABLES entries, file, budget, tree, dialogs, nextId, shown, deleted

vars == <<entries, file, budget, tree, dialogs, nextId, shown, deleted>>

\* ------------------------------------------------------------------ text
Dec(neg, int, frac) == [num |-> TRUE, neg |-> neg, int |-> int, frac |-> frac, raw |-> ""]

Raw(s) == [num |-> FALSE, neg |-> FALSE, int |-> 0, frac |-> <<>>, raw |-> s]

IsEmptyText(t) == ~t.num /\ t.raw = ""

\* str.strip() on a sequence of characters
RECURSIVE LStrip(_)
LStrip(s) == IF s # <<>> /\ Head(s) = " " THEN LStrip(Tail(s)) ELSE s

RECURSIVE RStrip(_)
RStrip(s) == IF s # <<>> /\ s[Len(s)] = " " THEN RStrip(SubSeq(s, 1, Len(s) - 1)) ELSE s

Strip(s) == RStrip(LStrip(s))

\* value in thousandths of the fractional digits (the first three count)
FracMilli(frac) ==
    (IF Len(frac) >= 1 THEN frac[1] * 100 ELSE 0)
  + (IF Len(frac) >= 2 THEN frac[2] * 10 ELSE 0)
  + (IF Len(frac) >= 3 THEN frac[3] ELSE 0)

\* float(text): ok = FALSE stands for ValueError
ParseFloat(t) ==
    IF t.num
    THEN [ok |-> TRUE, val |-> (IF t.neg THEN -1 ELSE 1) * (t.int * 1000 + FracMilli(t.frac))]
    ELSE [ok |-> FALSE, val |-> 0]

Abs(x) == IF x < 0 THEN -x ELSE x

\* number of hundredths nearest to m thousandths (ties to even)
RoundCents(m) ==
    LET q == m \div 10
        r == m % 10
    IN IF r < 5 THEN q
       ELSE IF r > 5 THEN q + 1
       ELSE IF q % 2 = 0 THEN q ELSE q + 1

\* f"{x:.2f}"
Fmt2(x) ==
    LET c == RoundCents(Abs(x))
    IN Dec(x < 0, c \div 100, <<(c \div 10) % 10, c % 10>>)

\* str(x) of a float: shortest decimal, at least one fractional digit
Repr(x) ==
    LET a == Abs(x)
        d1 == (a \div 100) % 10
        d2 == (a \div 10) % 10
        d3 == a % 10
    IN Dec(x < 0, a \div 1000,
           IF d3 # 0 THEN <<d1, d2, d3>>
           ELSE IF d2 # 0 THEN <<d1, d2>>
           ELSE <<d1>>)

\* ---------------------------------------------------------- Python values
PyStr(t) == [ty |-> "str", s |-> t, f |-> 0]

PyFloat(x) == [ty |-> "float", s |-> Raw(""), f |-> x]

\* float(e['Amount'])
AsFloat(v) == IF v.ty = "float" THEN v.f ELSE ParseFloat(v.s).val

\* the text csv.DictWriter writes for a value
CsvField(v) == IF v.ty = "float" THEN Repr(v.f) ELSE v.s

None == [set |-> FALSE, val |-> 0]

Some(x) == [set |-> TRUE, val |-> x]

\* ------------------------------------------------------------ record store
Row(e) == [ID |-> e.ID, Date |-> e.Date, Type |-> e.Type, Amount |-> CsvField(e.Amount),
           Category |-> e.Category, Note |-> e.Note]

write_entries(es) == [i \in 1..Len(es) |-> Row(es[i])]

\* faulty variant: the row is never written
append_entry_dropped(f, e) == f

append_entry(f, e) == Append(f, Row(e))

RowsParse(f) == \A i \in 1..Len(f) : ParseFloat(f[i].Amount).ok

read_entries(f) ==
    [i \in 1..Len(f) |->
        [ID |-> f[i].ID, Date |-> f[i].Date, Type |-> f[i].Type,
         Amount |-> PyFloat(ParseFloat(f[i].Amount).val),
         Category |-> f[i].Category, Note |-> f[i].Note]]

\* ------------------------------------------------------------------ ledger
populate_tree(es) == [i \in 1..Len(es) |-> es[i].ID]

IDs(s) == {s[i].ID : i \in 1..Len(s)}

RECURSIVE total_exp(_)
total_exp(es) ==
    IF es = <<>> THEN 0
    ELSE (IF Head(es).Type = "Expense" THEN AsFloat(Head(es).Amount) ELSE 0) + total_exp(Tail(es))

\* faulty variant: warns as soon as the budget is reached
budget_check_reached(b, typ, es) == b.set /\ typ = "Expense" /\ total_exp(es) >= b.val

budget_check(b, typ, es) == b.set /\ typ = "Expense" /\ total_exp(es) > b.val

\* faulty variant: ids are handed out again
uuid4_reused(n) == 1

\* a fresh id: the n-th id generated, different from every earlier one
uuid4(n) == n

new_entry(f, id, date) ==
    [ID |-> id, Date |-> date, Type |-> f.typ,
     Amount |-> PyStr(Fmt2(ParseFloat(f.amt).val)),
     Category |-> Strip(f.cat), Note |-> Strip(f.note)]

\* faulty variant: the edit also restamps the entry
edited_entry_restamped(e, f) ==
    [e EXCEPT !.Category = Strip(f.cat),
              !.Amount = PyStr(Fmt2(ParseFloat(f.amt).val)),
              !.Type = f.typ,
              !.Note = Strip(f.note),
              !.Date = 1 - e.Date]

edited_entry(e, f) ==
    [e EXCEPT !.Category = Strip(f.cat),
              !.Amount = PyStr(Fmt2(ParseFloat(f.amt).val)),
              !.Type = f.typ,
              !.Note = Strip(f.note)]

\* faulty variant: a rejected budget text clears the budget
set_budget_value_cleared(b, t) ==
    IF IsEmptyText(t) \/ ~ParseFloat(t).ok THEN None
    ELSE Some(ParseFloat(t).val)

set_budget_value(b, t) ==
    IF IsEmptyText(t) THEN None
    ELSE IF ~ParseFloat(t).ok THEN b
    ELSE Some(ParseFloat(t).val)

RemoveAt(s, k) == SubSeq(s, 1, k - 1) \o SubSeq(s, k + 1, Len(s))

\* ------------------------------------------------------------------ inputs
Food == <<"F">>

AddForms ==
    { [cat |-> Food, amt |-> Dec(FALSE, 5, <<>>), typ |-> "Expense", note |-> <<>>],
      [cat |-> <<" ", "R", " ">>, amt |-> Dec(TRUE, 2, <<5, 0, 7>>), typ |-> "Income", note |-> <<"n", " ">>],
      [cat |-> <<>>, amt |-> Dec(FALSE, 5, <<>>), typ |-> "Expense", note |-> <<>>],
      [cat |-> <<" ">>, amt |-> Dec(FALSE, 5, <<>>), typ |-> "Expense", note |-> <<>>],
      [cat |-> Food, amt |-> Raw(""), typ |-> "Expense", note |-> <<>>],
      [cat |-> Food, amt |-> Raw("abc"), typ |-> "Income", note |-> <<>>] }

EditForms ==
    { [cat |-> <<" ">>, amt |-> Dec(FALSE, 7, <<5>>), typ |-> "Expense", note |-> <<"n">>],
      [cat |-> Food, amt |-> Raw("abc"), typ |-> "Expense", note |-> <<>>] }

BudgetTexts == { Raw(""), Raw("abc"), Dec(FALSE, 5, <<>>) }

\* the months the clock passes through
Months == {0, 1}

\* datetime.now() when the n-th entry is created
now(n) == IF n = 1 THEN 0 ELSE 1

\* the filter text: -1 stands for the empty text, any other value for a month
FilterTexts == {-1} \cup Months

\* ------------------------------------------------------------------- state
Init ==
    /\ entries = <<>>
    /\ file = <<>>
    /\ budget = None
    /\ tree = <<>>
    /\ dialogs = <<>>
    /\ nextId = 1
    /\ shown = "none"
    /\ deleted = {}

add_entry(f) ==
    IF Strip(f.cat) = <<>> \/ IsEmptyText(f.amt) \/ ~ParseFloat(f.amt).ok
    THEN /\ shown' = "Validation Error"
         /\ UNCHANGED <<entries, file, budget, tree, dialogs, nextId, deleted>>
    ELSE /\ nextId <= MaxAdds
         /\ LET entry == new_entry(f, uuid4(nextId), now(nextId))
            IN /\ file' = append_entry(file, entry)
               /\ entries' = Append(entries, entry)
               /\ tree' = populate_tree(entries')
               /\ shown' = IF budget_check(budget, f.typ, entries')
                           THEN "Budget Exceeded" ELSE "none"
         /\ nextId' = nextId + 1
         /\ UNCHANGED <<budget, dialogs, deleted>>

on_edit_selected(id) ==
    /\ Len(dialogs) < MaxDialogs
    /\ IF id \notin IDs(entries)
       THEN /\ shown' = "Error"
            /\ UNCHANGED dialogs
       ELSE /\ dialogs' = Append(dialogs, [ID |-> id, old |-> FALSE])
            /\ shown' = "none"
    /\ UNCHANGED <<entries, file, budget, tree, nextId, deleted>>

save_changes(k, f) ==
    IF ~ParseFloat(f.amt).ok
    THEN /\ shown' = "Validation Error"
         /\ UNCHANGED <<entries, file, budget, tree, dialogs, nextId, deleted>>
    ELSE /\ entries' = [i \in 1..Len(entries) |->
                          IF entries[i].ID = dialogs[k].ID /\ ~dialogs[k].old
                          THEN edited_entry(entries[i], f)
                          ELSE entries[i]]
         /\ file' = write_entries(entries')
         /\ tree' = populate_tree(entries')
         /\ dialogs' = RemoveAt(dialogs, k)
         /\ shown' = "none"
         /\ UNCHANGED <<budget, nextId, deleted>>

close_edit_window(k) ==
    /\ dialogs' = RemoveAt(dialogs, k)
    /\ shown' = "none"
    /\ UNCHANGED <<entries, file, budget, tree, nextId, deleted>>

on_delete_selected(id, yes) ==
    IF yes
    THEN /\ entries' = SelectSeq(entries, LAMBDA e : e.ID # id)
         /\ file' = write_entries(entries')
         /\ tree' = populate_tree(entries')
         /\ deleted' = deleted \cup {id}
         /\ shown' = "none"
         /\ UNCHANGED <<budget, dialogs, nextId>>
    ELSE /\ shown' = "none"
         /\ UNCHANGED <<entries, file, budget, tree, dialogs, nextId, deleted>>

load_entries ==
    /\ IF RowsParse(file)
       THEN /\ entries' = read_entries(file)
            /\ tree' = populate_tree(entries')
            /\ dialogs' = [k \in 1..Len(dialogs) |-> [dialogs[k] EXCEPT !.old = TRUE]]
       ELSE UNCHANGED <<entries, tree, dialogs>>
    /\ shown' = "none"
    /\ UNCHANGED <<file, budget, nextId, deleted>>

apply_filter(m) ==
    IF m = -1
    THEN /\ shown' = "Input Error"
         /\ UNCHANGED <<entries, file, budget, tree, dialogs, nextId, deleted>>
    ELSE LET filtered == SelectSeq(entries, LAMBDA e : e.Date = m)
         IN /\ shown' = IF filtered = <<>> THEN "No Data" ELSE "none"
            /\ tree' = populate_tree(filtered)
            /\ UNCHANGED <<entries, file, budget, dialogs, nextId, deleted>>

set_budget(t) ==
    /\ budget' = set_budget_value(budget, t)
    /\ shown' = IF IsEmptyText(t) THEN "Budget"
                ELSE IF ~ParseFloat(t).ok THEN "Validation Error"
                ELSE "Budget Set"
    /\ UNCHANGED <<entries, file, tree, dialogs, nextId, deleted>>

export_csv(chosen) ==
    IF ~chosen
    THEN /\ shown' = "none"
         /\ UNCHANGED <<entries, file, budget, tree, dialogs, nextId, deleted>>
    ELSE /\ file' = write_entries(entries)
         /\ shown' = "Export"
         /\ UNCHANGED <<entries, budget, tree, dialogs, nextId, deleted>>

\* EXCEL_AVAILABLE is fixed when the module is imported; both values are tried
export_excel(available, chosen) ==
    /\ shown' = IF ~available THEN "Dependency Missing"
                ELSE IF ~chosen THEN "none"
                ELSE "Export"
    /\ UNCHANGED <<entries, file, budget, tree, dialogs, nextId, deleted>>

TreeIDs == {tree[i] : i \in 1..Len(tree)}

Next ==
    \/ \E f \in AddForms : add_entry(f)
    \/ \E id \in TreeIDs : on_edit_selected(id)
    \/ \E k \in 1..Len(dialogs), f \in EditForms : save_changes(k, f)
    \/ \E k \in 1..Len(dialogs) : close_edit_window(k)
    \/ \E id \in TreeIDs, yes \in BOOLEAN : on_delete_selected(id, yes)
    \/ load_entries
    \/ \E m \in FilterTexts : apply_filter(m)
    \/ \E t \in BudgetTexts : set_budget(t)
    \/ \E chosen \in BOOLEAN : export_csv(chosen)
    \/ \E available \in BOOLEAN, chosen \in BOOLEAN : export_excel(available, chosen)

Spec == Init /\ [][Next]_vars

\* ------------------------------------------------------------------ claims
AllIDs == IDs(entries) \cup IDs(file)

ValidAdd(f) == Strip(f.cat) # <<>> /\ f.amt.num

\* v is x at two-decimal precision: a whole number of hundredths nearest to x
AtTwoDecimals(v, x) == v % 10 = 0 /\ Abs(v - x) <= 5 /\ (x % 10 = 0 => v = x)

\* a file row and a ledger entry are the same record, Amount compared as a number
SameRecord(r, e) ==
    /\ r.ID = e.ID /\ r.Date = e.Date /\ r.Type = e.Type
    /\ r.Category = e.Category /\ r.Note = e.Note
    /\ ParseFloat(r.Amount).ok
    /\ ParseFloat(r.Amount).val = AsFloat(e.Amount)

Mirror ==
    /\ Len(file) = Len(entries)
    /\ \A i \in 1..Len(file) : SameRecord(file[i], entries[i])

AddAppends(f) ==
    /\ Len(file') = Len(file) + 1
    /\ SubSeq(file', 1, Len(file)) = file
    /\ SubSeq(entries', 1, Len(entries)) = entries
    /\ LET r == file'[Len(file')]
       IN /\ r.Category = Strip(f.cat) /\ r.Note = Strip(f.note) /\ r.Type = f.typ
          /\ AtTwoDecimals(ParseFloat(r.Amount).val, ParseFloat(f.amt).val)
          /\ r.ID \notin AllIDs \cup deleted

\* C1: after every operation the rows read from the backing file are, in
\* order, the entries of the ledger (same ID, Date, Type, Category, Note and
\* the same Amount as a number), and every successful add appends one row
\* carrying the given category, kind and note (as the form reads them), the
\* given amount at two-decimal precision, and an id that was never used.
C1_LedgerMirrorsFile ==
    [][ /\ (entries' # entries \/ file' # file) => Mirror'
        /\ \A f \in AddForms :
              (nextId' # nextId /\ add_entry(f) /\ ValidAdd(f)) => AddAppends(f) ]_vars

C1_Witness ==
    /\ Len(entries) = 2
    /\ \E i \in 1..2 : entries[i].Amount.ty = "float"
    /\ \E i \in 1..2 : entries[i].Amount.ty = "str" /\ entries[i].Note = <<"n">>

\* C2: every entry of the ledger and every row of the file has amount >= 0.
C2_AmountsNonNegative ==
    /\ \A i \in 1..Len(entries) : AsFloat(entries[i].Amount) >= 0
    /\ \A i \in 1..Len(file) : ParseFloat(file[i].Amount).val >= 0

\* C3: an operation that ends in a validation error leaves the ledger, the
\* backing file and the budget as they were.
C3_ValidationErrorChangesNothing ==
    [][ shown' = "Validation Error" =>
          (entries' = entries /\ file' = file /\ budget' = budget) ]_vars

C3_Witness ==
    /\ shown = "Validation Error"
    /\ budget.set
    /\ Len(entries) >= 1
    /\ Len(dialogs) >= 1

\* C4: a Save whose target id is not in the ledger fails with the not-found
\* error and leaves the ledger and the file unchanged (stated for a Save whose
\* amount is a number, so that no other error can account for the outcome).
C4_SaveOfMissingIdIsNotFound ==
    [][ \A k \in 1..Len(dialogs) : \A f \in EditForms :
          (save_changes(k, f) /\ f.amt.num /\ dialogs[k].ID \notin IDs(entries)) =>
             (shown' = "Error" /\ entries' = entries /\ file' = file) ]_vars

\* C5: an id that was deleted is in no later ledger and in no later file:
\* neither a later add nor a Save from a dialog opened before the delete
\* brings it back.
C5_DeletedIdNeverReturns == deleted \cap AllIDs = {}

C5_Witness ==
    /\ deleted # {}
    /\ shown = "none"
    /\ dialogs = <<>>
    /\ \E i \in 1..Len(entries) : \A d \in deleted : entries[i].ID > d

RECURSIVE SumExpenses(_, _)
SumExpenses(es, n) ==
    IF n = 0 THEN 0
    ELSE SumExpenses(es, n - 1)
         + (IF es[n].Type = "Expense" THEN ParseFloat(CsvField(es[n].Amount)).val ELSE 0)

C7_TwoDecimalsInFile ==
    \A i \in 1..Len(file) : file[i].Amount.num /\ Len(file[i].Amount.frac) = 2

\* C8: every entry of the ledger and every row of the file has a non-empty
\* category.
C8_CategoryNonEmpty ==
    /\ \A i \in 1..Len(entries) : Strip(entries[i].Category) # <<>>
    /\ \A i \in 1..Len(file) : Strip(file[i].Category) # <<>>

SameRow(r, q) ==
    /\ r.ID = q.ID /\ r.Date = q.Date /\ r.Type = q.Type
    /\ r.Category = q.Category /\ r.Note = q.Note
    /\ ParseFloat(r.Amount) = ParseFloat(q.Amount)

C10_SaveTakesEffect ==
    [][ \A k \in 1..Len(dialogs) : \A f \in EditForms :
          (save_changes(k, f) /\ f.amt.num /\ dialogs[k].ID \in IDs(entries)) =>
             /\ \E i \in 1..Len(entries') :
                   /\ entries'[i].ID = dialogs[k].ID
                   /\ entries'[i].Category = Strip(f.cat)
                   /\ entries'[i].Note = Strip(f.note)
                   /\ entries'[i].Type = f.typ
                   /\ AtTwoDecimals(AsFloat(entries'[i].Amount), ParseFloat(f.amt).val)
             /\ \E i \in 1..Len(file') :
                   /\ file'[i].ID = dialogs[k].ID
                   /\ file'[i].Category = Strip(f.cat)
                   /\ file'[i].Note = Strip(f.note)
                   /\ file'[i].Type = f.typ
                   /\ AtTwoDecimals(ParseFloat(file'[i].Amount).val, ParseFloat(f.amt).val) ]_vars
====
